---- MODULE Spec2Model ----
(***************************************************************************)
(* Model of crates/store/src/backend/elastic/index.rs: the projection of   *)
(* an FtsDocument into the backend Document, and the three operations      *)
(* fts_index, fts_remove and fts_remove_all of ElasticSearchStore, each a   *)
(* single request to the search backend followed by a check of the status  *)
(* of the response.  Callers are concurrent tasks; the backend and the      *)
(* transport are the environment.                                           *)
(***************************************************************************)
EXTENDS Integers, Sequences, FiniteSets, Bags, TLC

VARIABLES
    store,      \* backend: bag of stored records [index, source]
    pc,         \* per task: "idle", "sent" (request in flight), "answered" (response in flight)
    call,       \* per task: the operation called and its arguments
    req,        \* per task: the request the call put on the wire
    resp,       \* per task: status of the backend's response, "none" before it exists
    result,     \* per task: what the last call returned: "none", "Ok", "Err"
    delta,      \* per task: records the execution of the call's request added (+) or deleted (-)
    value,      \* projection: the FtsDocument given to Document::from
    document,   \* projection: the Document returned
    ppc         \* projection: "start", "done"

vars == <<store, pc, call, req, resp, result, delta, value, document, ppc>>

srvVars == <<store, pc, call, req, resp, result, delta>>
projVars == <<value, document, ppc>>

----------------------------------------------------------------------------
(* Bounds and sample universes *)

MaxParts == 3
MaxRecords == 2

Tasks == {"t1", "t2"}
AccountIds == {3, 7}
DocumentIds == {5, 9}
\* header names: values of the type parameter T, each with the text its
\* Display implementation writes
HeaderNames == {[display |-> s] : s \in {"X-Custom", "x-custom", "Subject"}}
Texts == {"Hello", "world"}

\* The fixed collection -> index name table (crate::backend::elastic::INDEX_NAMES).
INDEX_NAMES == <<"index_mail", "index_contact">>

\* A collection is a small integer indexing INDEX_NAMES from 0.
Collections == 0 .. (Len(INDEX_NAMES) - 1)

Range(s) == {s[i] : i \in DOMAIN s}

----------------------------------------------------------------------------
(* fts::Field, the parts of an FtsDocument *)

Fields == {[kind |-> "Header", name |-> n] : n \in HeaderNames}
          \cup {[kind |-> "Body"], [kind |-> "Attachment"], [kind |-> "Keyword"]}

Parts == {[field |-> f, text |-> t] : f \in Fields, t \in Texts}

SeqsUpTo(S, n) == UNION {[1..k -> S] : k \in 0..n}

FtsDocuments(partSeqs) ==
    {[account_id |-> a, document_id |-> d, collection |-> c, parts |-> ps] :
        a \in AccountIds, d \in DocumentIds, c \in Collections, ps \in partSeqs}

----------------------------------------------------------------------------
(* struct Document, struct Header, impl From<FtsDocument> for Document *)

\* variant of NewDocument: the two identifiers exchanged
NewDocumentSwapped(account_id, document_id) ==
    [document_id |-> account_id, account_id |-> document_id,
     body |-> <<>>, attachments |-> <<>>, keywords |-> <<>>, header |-> <<>>]

\* Document { account_id, document_id, ..Default::default() }
NewDocument(account_id, document_id) ==
    [document_id |-> document_id, account_id |-> account_id,
     body |-> <<>>, attachments |-> <<>>, keywords |-> <<>>, header |-> <<>>]

\* variant of NameToString: the name folded to lower case
NameToStringLower(name) ==
    CASE name.display = "X-Custom" -> "x-custom"
      [] name.display = "Subject" -> "subject"
      [] OTHER -> name.display

\* name.to_string(): the String that the Display implementation of the
\* name's type writes
NameToString(name) == name.display

\* Header { name: name.to_string().into(), value: part.text }
HeaderOf(name, text) == [name |-> NameToString(name), value |-> text]

\* variant of PushPart: attachment text pushed onto the body
PushPartMerged(doc, part) ==
    CASE part.field.kind = "Header" ->
            [doc EXCEPT !.header = Append(@, HeaderOf(part.field.name, part.text))]
      [] part.field.kind \in {"Body", "Attachment"} ->
            [doc EXCEPT !.body = Append(@, part.text)]
      [] part.field.kind = "Keyword" ->
            [doc EXCEPT !.keywords = Append(@, part.text)]

\* one iteration of `for part in value.parts { match part.field {..} }`
PushPart(doc, part) ==
    CASE part.field.kind = "Header" ->
            [doc EXCEPT !.header = Append(@, HeaderOf(part.field.name, part.text))]
      [] part.field.kind = "Body" ->
            [doc EXCEPT !.body = Append(@, part.text)]
      [] part.field.kind = "Attachment" ->
            [doc EXCEPT !.attachments = Append(@, part.text)]
      [] part.field.kind = "Keyword" ->
            [doc EXCEPT !.keywords = Append(@, part.text)]

RECURSIVE PushParts(_, _)
PushParts(doc, parts) ==
    IF parts = <<>> THEN doc
    ELSE PushParts(PushPart(doc, Head(parts)), Tail(parts))

\* Document::from(value)
DocumentFrom(v) == PushParts(NewDocument(v.account_id, v.document_id), v.parts)

----------------------------------------------------------------------------
(* The requests the three operations build *)

\* DocumentSet::iterate().collect::<Vec<_>>(): the members as a finite sequence
RECURSIVE Iterate(_)
Iterate(ids) ==
    IF ids = {} THEN <<>>
    ELSE LET m == CHOOSE x \in ids : \A y \in ids : x <= y
         IN <<m>> \o Iterate(ids \ {m})

\* variant of IndexTarget: the collection ignored, always the first index
IndexTargetFirst(collection) == <<INDEX_NAMES[1]>>

\* IndexParts::Index(INDEX_NAMES[document.collection as usize])
IndexTarget(collection) == <<INDEX_NAMES[collection + 1]>>

\* variant of RemoveTarget: every index instead of the collection's
RemoveTargetAll(collection) == INDEX_NAMES

\* DeleteByQueryParts::Index(&[INDEX_NAMES[collection as usize]])
RemoveTarget(collection) == <<INDEX_NAMES[collection + 1]>>

\* variant of RemoveAllTarget: the first index only
RemoveAllTargetFirst == <<INDEX_NAMES[1]>>

\* DeleteByQueryParts::Index(INDEX_NAMES)
RemoveAllTarget == INDEX_NAMES

\* variant of RemoveQuery: the terms clause left out for an empty id list
RemoveQuerySkipEmpty(account_id, document_ids) ==
    [query |-> [bool |-> [must |->
        IF document_ids = <<>>
        THEN << [match |-> [field |-> "account_id", value |-> account_id]] >>
        ELSE << [match |-> [field |-> "account_id", value |-> account_id]],
                [terms |-> [field |-> "document_id", values |-> document_ids]] >> ]]]

\* variant of RemoveQuery: the account clause left out
RemoveQueryNoAccount(account_id, document_ids) ==
    [query |-> [bool |-> [must |->
        << [terms |-> [field |-> "document_id", values |-> document_ids]] >> ]]]

\* json!({"query": {"bool": {"must": [{"match": ..}, {"terms": ..}]}}})
RemoveQuery(account_id, document_ids) ==
    [query |-> [bool |-> [must |->
        << [match |-> [field |-> "account_id", value |-> account_id]],
           [terms |-> [field |-> "document_id", values |-> document_ids]] >> ]]]

\* json!({"query": {"bool": {"must": [{"match": ..}]}}})
RemoveAllQuery(account_id) ==
    [query |-> [bool |-> [must |->
        << [match |-> [field |-> "account_id", value |-> account_id]] >> ]]]

\* self.index.index(..).body(Document::from(document))
IndexRequest(doc) ==
    [method |-> "index", indices |-> IndexTarget(doc.collection),
     body |-> DocumentFrom(doc)]

\* self.index.delete_by_query(..).body(json!(..)) of fts_remove
RemoveRequest(account_id, collection, document_ids) ==
    [method |-> "delete_by_query", indices |-> RemoveTarget(collection),
     body |-> RemoveQuery(account_id, Iterate(document_ids))]

\* self.index.delete_by_query(..).body(json!(..)) of fts_remove_all
RemoveAllRequest(account_id) ==
    [method |-> "delete_by_query", indices |-> RemoveAllTarget,
     body |-> RemoveAllQuery(account_id)]

\* variant of ResultOf: the status of the response not looked at
ResultOfIgnoringStatus(sent) == IF ~sent.ok THEN "Err" ELSE "Ok"

\* .map_err(Into::into).and_then(|response| if response.status_code().is_success() ..)
\* sent is the outcome of send().await: a transport error, or a response with a status
ResultOf(sent) ==
    IF ~sent.ok THEN "Err"
    ELSE IF sent.success THEN "Ok" ELSE "Err"

----------------------------------------------------------------------------
(* The search backend: stored records and the execution of a request *)

\* a clause of a bool query against the stored source of a record
ClauseMatches(clause, source) ==
    IF "match" \in DOMAIN clause
    THEN source[clause.match.field] = clause.match.value
    ELSE source[clause.terms.field] \in Range(clause.terms.values)

\* bool.must: every clause matches
QueryMatches(body, source) ==
    \A i \in DOMAIN body.query.bool.must :
        ClauseMatches(body.query.bool.must[i], source)

\* the records a delete-by-query request selects
Selected(st, r) ==
    {rec \in DOMAIN st : rec.index \in Range(r.indices) /\ QueryMatches(r.body, rec.source)}

\* the store after the backend executed request r
Execute(st, r) ==
    IF r.method = "index"
    THEN st (+) SetToBag({[index |-> r.indices[1], source |-> r.body]})
    ELSE [rec \in (DOMAIN st) \ Selected(st, r) |-> st[rec]]

----------------------------------------------------------------------------------------------------------------------------------------
(* Initial state *)

NoCall == [op |-> "none"]
NoRequest == [method |-> "none"]
NoDocument == [account_id |-> 0]

\* the part sequence of the documents the callers index
IndexedParts ==
    { << [field |-> [kind |-> "Header", name |-> [display |-> "Subject"]], text |-> "Hello"],
         [field |-> [kind |-> "Body"], text |-> "world"] >> }

DocumentSets == {{}, {5}, {5, 9}}

SrvInit ==
    /\ store = EmptyBag
    /\ pc = [t \in Tasks |-> "idle"]
    /\ call = [t \in Tasks |-> NoCall]
    /\ req = [t \in Tasks |-> NoRequest]
    /\ resp = [t \in Tasks |-> "none"]
    /\ result = [t \in Tasks |-> "none"]
    /\ delta = [t \in Tasks |-> 0]

ProjIdle ==
    /\ value = NoDocument
    /\ document = NoDocument
    /\ ppc = "idle"

Init == SrvInit /\ ProjIdle

----------------------------------------------------------------------------
(* The operations of ElasticSearchStore, up to the await of send() *)

\* index requests in flight
Pending == {t \in Tasks : pc[t] = "sent" /\ req[t].method = "index"}

\* a task starts a call: it builds the request and sends it, once
Issue(t, c, r) ==
    /\ pc[t] = "idle"
    /\ call' = [call EXCEPT ![t] = c]
    /\ req' = [req EXCEPT ![t] = r]
    /\ pc' = [pc EXCEPT ![t] = "sent"]
    /\ result' = [result EXCEPT ![t] = "none"]
    /\ UNCHANGED <<store, resp, delta>>
    /\ UNCHANGED projVars

\* fts_index(document); the guard bounds the model: at most MaxRecords
\* records are stored or on their way
fts_index(t, doc) ==
    /\ BagCardinality(store) + Cardinality(Pending) < MaxRecords
    /\ Issue(t, [op |-> "fts_index", document |-> doc], IndexRequest(doc))

\* fts_remove(account_id, collection, document_ids)
fts_remove(t, account_id, collection, document_ids) ==
    Issue(t, [op |-> "fts_remove", account_id |-> account_id,
              collection |-> collection, document_ids |-> document_ids],
          RemoveRequest(account_id, collection, document_ids))

\* fts_remove_all(account_id)
fts_remove_all(t, account_id) ==
    Issue(t, [op |-> "fts_remove_all", account_id |-> account_id],
          RemoveAllRequest(account_id))

\* variant of Return: an error returned fails the calls of the other tasks too
ReturnShared(t, r) ==
    /\ pc' = [u \in Tasks |-> IF u = t \/ r = "Err" THEN "idle" ELSE pc[u]]
    /\ result' = [u \in Tasks |->
                    IF u = t THEN r
                    ELSE IF r = "Err" /\ pc[u] # "idle" THEN "Err" ELSE result[u]]
    /\ call' = [u \in Tasks |-> IF u = t \/ r = "Err" THEN NoCall ELSE call[u]]
    /\ req' = [u \in Tasks |-> IF u = t \/ r = "Err" THEN NoRequest ELSE req[u]]
    /\ resp' = [u \in Tasks |-> IF u = t \/ r = "Err" THEN "none" ELSE resp[u]]
    /\ delta' = [u \in Tasks |-> IF u = t \/ r = "Err" THEN 0 ELSE delta[u]]
    /\ UNCHANGED store
    /\ UNCHANGED projVars

\* the call returns r: nothing of it is left but the value returned
Return(t, r) ==
    /\ pc' = [pc EXCEPT ![t] = "idle"]
    /\ result' = [result EXCEPT ![t] = r]
    /\ call' = [call EXCEPT ![t] = NoCall]
    /\ req' = [req EXCEPT ![t] = NoRequest]
    /\ resp' = [resp EXCEPT ![t] = "none"]
    /\ delta' = [delta EXCEPT ![t] = 0]
    /\ UNCHANGED store
    /\ UNCHANGED projVars

\* send().await resumes with a response: the closure of and_then decides the result
Resume(t) ==
    /\ pc[t] = "answered"
    /\ Return(t, ResultOf([ok |-> TRUE, success |-> (resp[t] = "success")]))

\* send().await resumes with a transport error, before or after the backend
\* took up the request: map_err turns it into the error returned
ResumeError(t) ==
    /\ pc[t] \in {"sent", "answered"}
    /\ Return(t, ResultOf([ok |-> FALSE]))

----------------------------------------------------------------------------
(* The backend *)

\* the backend executes the request of task t and answers with a success status
BackendExecute(t) ==
    /\ pc[t] = "sent"
    /\ store' = Execute(store, req[t])
    /\ pc' = [pc EXCEPT ![t] = "answered"]
    /\ resp' = [resp EXCEPT ![t] = "success"]
    /\ delta' = [delta EXCEPT ![t] = BagCardinality(store') - BagCardinality(store)]
    /\ UNCHANGED <<call, req, result>>
    /\ UNCHANGED projVars

\* the backend refuses the request of task t: a non-success status, nothing executed
BackendReject(t) ==
    /\ pc[t] = "sent"
    /\ pc' = [pc EXCEPT ![t] = "answered"]
    /\ resp' = [resp EXCEPT ![t] = "failure"]
    /\ UNCHANGED <<store, call, req, result, delta>>
    /\ UNCHANGED projVars

Next ==
    \/ \E t \in Tasks, doc \in FtsDocuments(IndexedParts) : fts_index(t, doc)
    \/ \E t \in Tasks, a \in AccountIds, c \in Collections, ids \in DocumentSets :
          fts_remove(t, a, c, ids)
    \/ \E t \in Tasks, a \in AccountIds : fts_remove_all(t, a)
    \/ \E t \in Tasks : Resume(t)
    \/ \E t \in Tasks : ResumeError(t)
    \/ \E t \in Tasks : BackendExecute(t)
    \/ \E t \in Tasks : BackendReject(t)

Spec == Init /\ [][Next]_vars

----------------------------------------------------------------------------
(* The projection on its own: Document::from applied to every bounded input *)

ProjInit ==
    /\ SrvInit
    /\ value \in FtsDocuments(SeqsUpTo(Parts, MaxParts))
    /\ document = NoDocument
    /\ ppc = "start"

Project ==
    /\ ppc = "start"
    /\ document' = DocumentFrom(value)
    /\ ppc' = "done"
    /\ UNCHANGED value
    /\ UNCHANGED srvVars

ProjNext == Project

SpecProject == ProjInit /\ [][ProjNext]_vars

----------------------------------------------------------------------------
(* Properties of the projection, under SpecProject *)

OfKind(parts, k) == SelectSeq(parts, LAMBDA p : p.field.kind = k)
TextsOf(parts) == [i \in 1..Len(parts) |-> parts[i].text]
HeadersOf(parts) ==
    [i \in 1..Len(parts) |->
        [name |-> parts[i].field.name.display, value |-> parts[i].text]]

\* C1: every fragment lands in exactly one of header, body, attachments,
\* keywords: each of the four is the subsequence of the input carrying that
\* classification, in input order, and the four lengths add up to the number
\* of input fragments.
C1_Partition ==
    ppc = "done" =>
        /\ document.header = HeadersOf(OfKind(value.parts, "Header"))
        /\ document.body = TextsOf(OfKind(value.parts, "Body"))
        /\ document.attachments = TextsOf(OfKind(value.parts, "Attachment"))
        /\ document.keywords = TextsOf(OfKind(value.parts, "Keyword"))
        /\ Len(document.header) + Len(document.body)
             + Len(document.attachments) + Len(document.keywords) = Len(value.parts)

\* a projection of three fragments: two equal body texts kept apart, one attachment
C1_Witness ==
    /\ ppc = "done"
    /\ Len(value.parts) = MaxParts
    /\ document.body = <<"Hello", "Hello">>
    /\ Len(document.attachments) = 1

\* C2: the projection is defined on every input, its result carries the
\* given document_id and account_id, and an empty fragment sequence gives
\* four empty field sequences.
C2_Identifiers ==
    /\ ppc = "start" => ENABLED Project
    /\ ppc = "done" =>
        /\ document.document_id = value.document_id
        /\ document.account_id = value.account_id
        /\ value.parts = <<>> =>
              /\ document.header = <<>> /\ document.body = <<>>
              /\ document.attachments = <<>> /\ document.keywords = <<>>

\* the projection of a document without fragments
C2_Witness ==
    /\ ppc = "done"
    /\ value.parts = <<>>
    /\ document.account_id = 7
    /\ document.document_id = 5

\* C3: each Header(name) fragment with text t gives one header entry
\* {name, t} whose name is the text of the name, case and form unchanged:
\* the result holds as many entries {name, t} as the input holds such
\* fragments, and no other entry.
C3_HeaderVerbatim ==
    ppc = "done" =>
        /\ \A n \in HeaderNames, t \in Texts :
              Cardinality({i \in DOMAIN document.header :
                              document.header[i] = [name |-> n.display, value |-> t]})
            = Cardinality({i \in DOMAIN value.parts :
                              /\ value.parts[i].field.kind = "Header"
                              /\ value.parts[i].field.name = n
                              /\ value.parts[i].text = t})
        /\ Len(document.header) = Len(OfKind(value.parts, "Header"))

\* the same header name twice, and the same name in another case
C3_Witness ==
    /\ ppc = "done"
    /\ document.header = << [name |-> "X-Custom", value |-> "Hello"],
                            [name |-> "x-custom", value |-> "Hello"],
                            [name |-> "X-Custom", value |-> "world"] >>

----------------------------------------------------------------------------
(* Properties of the three operations, under Spec *)

\* the step in which the backend executes the request of task t
Executes(t) == pc[t] = "sent" /\ pc'[t] = "answered" /\ resp'[t] = "success"

\* the step in which the call of task t returns
Returns(t) == pc[t] # "idle" /\ pc'[t] = "idle"

\* the bag st cut down to the records in S
Keep(st, S) == [rec \in S |-> st[rec]]

\* the records of account a in st, and the number of records of (idx, a, d)
OfAccount(st, a) == {rec \in DOMAIN st : rec.source.account_id = a}
Count(st, idx, a, d) ==
    BagCardinality(Keep(st, {rec \in DOMAIN st :
        rec.index = idx /\ rec.source.account_id = a /\ rec.source.document_id = d}))

IndexOf(collection) == INDEX_NAMES[collection + 1]

\* C4: fts_remove(account_id, collection, document_ids) puts one
\* delete-by-query on the wire, against the index of that collection only;
\* its execution deletes exactly the records of that index with that
\* account_id and a document_id in the set and leaves every other record,
\* and the call returns Ok on the success response.
C4_RemoveExact ==
    [][\A t \in Tasks : call[t].op = "fts_remove" =>
          LET a == call[t].account_id
              idx == IndexOf(call[t].collection)
              ids == call[t].document_ids
              hit == {rec \in DOMAIN store :
                         /\ rec.index = idx
                         /\ rec.source.account_id = a
                         /\ rec.source.document_id \in ids}
          IN /\ req[t].method = "delete_by_query"
             /\ Range(req[t].indices) = {idx}
             /\ Executes(t) => store' = Keep(store, (DOMAIN store) \ hit)
             /\ (Resume(t) /\ resp[t] = "success") => result'[t] = "Ok"
      ]_vars

\* a remove of account 3 was executed and deleted a record, while the record
\* of account 7 with a document id of the set stays in the same index
C4_Witness ==
    \E t \in Tasks :
        /\ pc[t] = "answered" /\ resp[t] = "success"
        /\ call[t].op = "fts_remove" /\ call[t].account_id = 3
        /\ delta[t] < 0
        /\ \E rec \in DOMAIN store :
              /\ rec.index = IndexOf(call[t].collection)
              /\ rec.source.account_id = 7
              /\ rec.source.document_id \in call[t].document_ids

\* C5: fts_remove with an empty id set still puts its request on the wire;
\* the execution of that request deletes nothing, and the call returns Ok on
\* the success response.
C5_RemoveEmpty ==
    [][\A t \in Tasks :
          (call[t].op = "fts_remove" /\ call[t].document_ids = {}) =>
             /\ pc[t] \in {"sent", "answered"}
             /\ req[t].method = "delete_by_query"
             /\ Executes(t) => store' = store
             /\ (Resume(t) /\ resp[t] = "success") => result'[t] = "Ok"
      ]_vars

\* a remove with no ids was executed for an account that has a record in the
\* index of that collection, and the record is still there
C5_Witness ==
    \E t \in Tasks :
        /\ pc[t] = "answered" /\ resp[t] = "success"
        /\ call[t].op = "fts_remove" /\ call[t].document_ids = {}
        /\ delta[t] = 0
        /\ \E rec \in DOMAIN store :
              /\ rec.index = IndexOf(call[t].collection)
              /\ rec.source.account_id = call[t].account_id

\* C6: fts_remove_all(account_id) puts one delete-by-query on the wire,
\* against every index of INDEX_NAMES, matching on account_id alone; after
\* its execution no index holds a record of that account and the records of
\* the other accounts are as before.
C6_RemoveAll ==
    [][\A t \in Tasks : call[t].op = "fts_remove_all" =>
          LET a == call[t].account_id
          IN /\ req[t].method = "delete_by_query"
             /\ Range(req[t].indices) = Range(INDEX_NAMES)
             /\ Len(req[t].body.query.bool.must) = 1
             /\ Executes(t) =>
                   /\ OfAccount(store', a) = {}
                   /\ store' = Keep(store, (DOMAIN store) \ OfAccount(store, a))
      ]_vars

\* a remove_all was executed and deleted records, and a record of another
\* account is still stored
C6_Witness ==
    \E t \in Tasks :
        /\ pc[t] = "answered" /\ resp[t] = "success"
        /\ call[t].op = "fts_remove_all"
        /\ delta[t] < 0
        /\ store # EmptyBag

\* C7: the execution of fts_remove_all(a) leaves no record of account a, and
\* the execution of fts_remove(a, c, ids) on a store without records of
\* account a, as fts_remove_all(a) leaves it, deletes nothing for any c and
\* ids; the call returns Ok on the success response.
C7_RemoveAfterRemoveAll ==
    [][\A t \in Tasks :
          /\ (call[t].op = "fts_remove_all" /\ Executes(t)) =>
                OfAccount(store', call[t].account_id) = {}
          /\ (call[t].op = "fts_remove" /\ OfAccount(store, call[t].account_id) = {}) =>
                /\ Executes(t) => store' = store
                /\ (Resume(t) /\ resp[t] = "success") => result'[t] = "Ok"
      ]_vars

\* remove_all(a) and then remove(a, c, ids) were executed; a record of the
\* other account with a document id of ids is in the index of c, untouched
C7_Witness ==
    \E t \in Tasks, u \in Tasks :
        /\ pc[u] = "answered" /\ resp[u] = "success" /\ call[u].op = "fts_remove_all"
        /\ pc[t] = "answered" /\ resp[t] = "success" /\ call[t].op = "fts_remove"
        /\ call[t].account_id = call[u].account_id
        /\ delta[u] < 0 /\ delta[t] = 0
        /\ OfAccount(store, call[t].account_id) = {}
        /\ \E rec \in DOMAIN store :
              /\ rec.index = IndexOf(call[t].collection)
              /\ rec.source.document_id \in call[t].document_ids

\* C8 as stated: a call whose transport fails or whose response has a
\* non-success status returns an error, leaves no request behind, and its
\* request has changed nothing in the store; a call returns Ok only on a
\* response with a success status.
C8_FailureLeavesStore ==
    [][\A t \in Tasks :
          /\ (Returns(t) /\ (resp[t] # "success" \/ ResumeError(t))) =>
                /\ result'[t] = "Err"
                /\ req'[t] = NoRequest
                /\ store' = store
                /\ delta[t] = 0
          /\ (pc[t] = "sent" /\ pc'[t] = "answered" /\ resp'[t] = "failure") =>
                store' = store
          /\ (Returns(t) /\ result'[t] = "Ok") =>
                (pc[t] = "answered" /\ resp[t] = "success")
      ]_vars

\* C8, amended: a call whose transport fails or whose response has a
\* non-success status returns an error and leaves no request behind; its
\* request has changed nothing in the store when the backend did not execute
\* it (refused with a non-success status, or lost before it arrived); a call
\* returns Ok only on a response with a success status.
C8_FailureReturnsError ==
    [][\A t \in Tasks :
          /\ (Returns(t) /\ (resp[t] # "success" \/ ResumeError(t))) =>
                /\ result'[t] = "Err"
                /\ req'[t] = NoRequest
                /\ store' = store
                /\ resp[t] # "success" => delta[t] = 0
          /\ (pc[t] = "sent" /\ pc'[t] = "answered" /\ resp'[t] = "failure") =>
                store' = store
          /\ (Returns(t) /\ result'[t] = "Ok") =>
                (pc[t] = "answered" /\ resp[t] = "success")
      ]_vars

\* one call has returned an error, another holds a non-success response that
\* changed nothing, and the store holds records
C8_Witness ==
    \E t \in Tasks, u \in Tasks :
        /\ pc[t] = "idle" /\ result[t] = "Err"
        /\ pc[u] = "answered" /\ resp[u] = "failure" /\ delta[u] = 0
        /\ store # EmptyBag

\* C9: the execution of an fts_index request adds exactly one record, to the
\* index INDEX_NAMES names for the collection, and changes no other count;
\* so indexing the same (account_id, document_id) again adds a further
\* record, and the execution of an fts_remove naming a document id leaves no
\* record of that account and id in the index, however many there were.
C9_IndexAddsOne ==
    [][\A t \in Tasks :
          /\ (call[t].op = "fts_index" /\ Executes(t)) =>
                LET doc == call[t].document
                    idx == IndexOf(doc.collection)
                IN /\ BagCardinality(store') = BagCardinality(store) + 1
                   /\ \A i \in Range(INDEX_NAMES), a \in AccountIds, d \in DocumentIds :
                         Count(store', i, a, d) =
                            Count(store, i, a, d)
                            + (IF i = idx /\ a = doc.account_id /\ d = doc.document_id
                               THEN 1 ELSE 0)
          /\ (call[t].op = "fts_remove" /\ Executes(t)) =>
                \A d \in call[t].document_ids :
                    Count(store', IndexOf(call[t].collection), call[t].account_id, d) = 0
      ]_vars

\* a remove naming one document id deleted two records: the pair had been
\* indexed twice with no removal in between
C9_Witness ==
    \E t \in Tasks :
        /\ pc[t] = "answered" /\ resp[t] = "success"
        /\ call[t].op = "fts_remove"
        /\ Cardinality(call[t].document_ids) = 1
        /\ delta[t] = 0 - MaxRecords

\* an in-flight request can be executed, and an idle task can start a
\* removal, whatever the other tasks are doing
NoExclusion ==
    \A t \in Tasks :
        /\ pc[t] = "sent" => ENABLED BackendExecute(t)
        /\ pc[t] = "idle" =>
              /\ \A a \in AccountIds : ENABLED fts_remove_all(t, a)
              /\ \A a \in AccountIds, c \in Collections, ids \in DocumentSets :
                    ENABLED fts_remove(t, a, c, ids)

\* a step of the call of task t leaves the calls of the other tasks as they are
OthersUntouched(t) ==
    \A u \in Tasks \ {t} :
        /\ pc'[u] = pc[u] /\ result'[u] = result[u] /\ call'[u] = call[u]
        /\ req'[u] = req[u] /\ resp'[u] = resp[u] /\ delta'[u] = delta[u]

\* C10: no ordering or mutual exclusion between calls: every in-flight
\* request may be executed next and every idle task may start a removal,
\* whatever the other calls do; and a call that fails (refused, transport
\* error, error returned) changes nothing of the other calls nor the store.
C10_NoOrdering ==
    /\ []NoExclusion
    /\ [][\A t \in Tasks :
             /\ (Returns(t) \/ (pc[t] = "sent" /\ pc'[t] = "answered")) => OthersUntouched(t)
             /\ ((Returns(t) /\ result'[t] = "Err")
                   \/ (pc[t] = "sent" /\ pc'[t] = "answered" /\ resp'[t] = "failure")) =>
                   store' = store
       ]_vars

\* fts_index of a document of account a and fts_remove_all(a) ran
\* concurrently, both got a success response, and the record is stored:
\* the removal was executed first
C10_Witness ==
    \E t \in Tasks, u \in Tasks :
        /\ pc[t] = "answered" /\ resp[t] = "success" /\ call[t].op = "fts_index"
        /\ pc[u] = "answered" /\ resp[u] = "success" /\ call[u].op = "fts_remove_all"
        /\ call[u].account_id = call[t].document.account_id
        /\ OfAccount(store, call[u].account_id) # {}

====
